---- MODULE Spec2Model ----
(***************************************************************************)
(* Model of lib/passport-email.js: the mongoose plugin that adds password  *)
(* hashing (setPassword), per-record authentication with attempt           *)
(* throttling (methods.authenticate), identifier resolution                *)
(* (statics.authenticate) and registration (statics.register).             *)
(*                                                                         *)
(* Every call is a chain of callbacks.  One action of the model is one     *)
(* callback: the synchronous code that runs between two suspension points  *)
(* (a store query, crypto.randomBytes, crypto.pbkdf2, a save).             *)
(* A save that the code issues without a callback (lines 122, 147, 154) is *)
(* a write in flight: the action that issues it puts it into pendingSaves  *)
(* and the store applies it, or fails it, in a step of its own.            *)
(***************************************************************************)
EXTENDS Integers, Sequences, FiniteSets, TLC

(* ------------------------------ bounds --------------------------------- *)
\* largest clock value (milliseconds of Date.now()) where throttling is followed
MaxTime == 6
\* largest clock value where registration and lookup are followed
ShortTime == 1
\* calls are started only while every stored attempts counter is below this
MaxAttempts == 5
\* largest number of documents in the collection
MaxRecords == 2
\* largest number of unacknowledged saves in flight
MaxPending == 2

(* --------------------------- configuration ----------------------------- *)
\* options.interval (line 31 defaults it to 100; 2 keeps the delays small)
interval == 2
\* options.maxInterval (line 32 defaults it to 300000)
maxInterval == 3

\* the concurrent callers
Procs == {1, 2}
\* identifier strings; "" stands for an absent (undefined) field
Idents == {"a", "A", "b"}
Absent == ""
\* secrets; "" stands for an absent or empty password
Passwords == {"p", "q"}
\* values crypto.randomBytes can deliver (after encoding)
Salts == {"s1", "s2"}

(* ------------------------------ helpers -------------------------------- *)
\* String.prototype.toLowerCase on the identifier strings
ToLowerCase(s) == IF s = "A" THEN "a" ELSE s

\* crypto.pbkdf2(password, salt, iterations, keylen): treated as injective
Pbkdf2(password, salt) == <<"pbkdf2", password, salt>>

\* new Buffer(hashRaw, 'binary').toString(options.encoding)
EncodeHash(hashRaw) == <<"hex", hashRaw>>

\* the value of an unset hash field
NoHash == <<>>

\* ceil(Math.pow(options.interval, Math.log(attempts + 1))) for interval = 2:
\* 2^ln(1) = 1, 2^ln(2) = 1.62, 2^ln(3) = 2.14, 2^ln(4) = 2.61, 2^ln(5) = 3.05,
\* 2^ln(6) = 3.46, 2^ln(7) = 3.85, 2^ln(8) = 4.23.  The elapsed time is a whole
\* number of milliseconds, so elapsed < x is elapsed < ceil(x).
AttemptsInterval(attempts) ==
    CASE interval = 2 -> <<1, 2, 3, 3, 4, 4, 4, 5>>[attempts + 1]

\* (a variant of CalculatedInterval without the cap)
CalculatedIntervalUncapped(attempts) == AttemptsInterval(attempts)

\* line 118: the delay is capped at options.maxInterval
CalculatedInterval(attempts) ==
    IF AttemptsInterval(attempts) < maxInterval
    THEN AttemptsInterval(attempts) ELSE maxInterval

\* (a variant of TooSoon that ignores the attempts counter)
TooSoonIgnoresAttempts(time, last, attempts) == time - last < CalculatedInterval(0)

\* line 120: the attempt comes too soon after the last one
TooSoon(time, last, attempts) == time - last < CalculatedInterval(attempts)

\* line 146: the attempts counter after a successful verification
AttemptsAfterSuccess(attempts) == 0

\* line 153: the attempts counter after a failed verification
AttemptsAfterFailure(attempts) == attempts + 1

\* (a variant of HashMatches that compares the digest before it is encoded)
HashMatchesUnencoded(password, salt, hash) == Pbkdf2(password, salt) = hash

\* line 143: the recomputed digest equals the stored one
HashMatches(password, salt, hash) == EncodeHash(Pbkdf2(password, salt)) = hash

(* ------------------------------- state --------------------------------- *)
VARIABLES
    limitAttempts,      \* options.limitAttempts
    usernameLowerCase,  \* options.usernameLowerCase
    messages,           \* options.<failure>Error: the text of each failure
    now,                \* Date.now()
    store,              \* the collection: a sequence of documents, _id = index
    pendingSaves,       \* saves issued without a callback, not yet applied
    pc,                 \* pc[p]: the callback process p waits for
    args,               \* args[p]: the arguments of p's current call
    doc,                \* doc[p]: the in-memory document of p's call
    result,             \* result[p]: what p's callback was given
    trace,              \* trace[p]: collaborator calls of p's current call
    loaded,             \* loaded[p]: the document as the store returned it
    cbCount             \* cbCount[p]: times the current call's callback ran

vars == <<limitAttempts, usernameLowerCase, messages, now, store, pendingSaves,
          pc, args, doc, result, trace, loaded, cbCount>>

options == <<limitAttempts, usernameLowerCase, messages>>

\* the failures authenticate reports with cb(null, false, info)
FailureCodes ==
    {"attemptTooSoon", "noSaltValueStored", "incorrectPassword",
     "incorrectUsername"}

\* lines 35-42: the texts the options default to, one per failure
DefaultMessages ==
    [c \in FailureCodes |->
        CASE c = "attemptTooSoon" -> "Login attempted too soon"
          [] c = "noSaltValueStored" -> "No salt value stored"
          [] c = "incorrectPassword" -> "Incorrect password"
          [] c = "incorrectUsername" -> "Incorrect username"]

\* texts an application can configure instead
Texts == {"Login failed", "Try again later"}

\* the third argument of cb(null, false, info): lines 123-125 and 131-133
\* pass the message alone, lines 156-159 and 186-189 a result and the message
Info(code) ==
    [result |-> IF code \in {"incorrectPassword", "incorrectUsername"}
                THEN code ELSE Absent,
     message |-> messages[code]]

\* a document that is in no collection: new Model({}) before any field is set
\* (secret is no field of the schema: it records which password the hash was
\* derived from, for the properties to refer to)
NoDoc == [id |-> 0, username |-> Absent, email |-> Absent, hash |-> NoHash,
          salt |-> Absent, attempts |-> 0, last |-> 0, secret |-> Absent]

NoArgs == [op |-> "none", name |-> Absent, email |-> Absent, password |-> Absent,
           salt |-> Absent]

NoResult == [kind |-> "none", code |-> "none"]

\* cb(null, user)
Ok == [kind |-> "ok", code |-> "user"]
\* cb(null, false, {message: ...})
Fail(code) == [kind |-> "fail", code |-> code]
\* cb(err)
Error(code) == [kind |-> "error", code |-> code]

\* the document with _id = id as a caller's in-memory copy
Load(id) == [id |-> id] @@ store[id]

\* the stored fields of an in-memory document
Stored(d) == [username |-> d.username, email |-> d.email, hash |-> d.hash,
              salt |-> d.salt, attempts |-> d.attempts, last |-> d.last,
              secret |-> d.secret]

(* lines 44-72: the schema.  attempts defaults to 0 and last to Date.now at  *)
(* construction; both fields exist only with limitAttempts.                 *)
NewDoc(username, email) ==
    [NoDoc EXCEPT !.username = username, !.email = email,
                  !.last = IF limitAttempts THEN now ELSE 0]

\* (a variant of PreSave that leaves the email as it was given)
PreSaveKeepsEmail(d) ==
    [d EXCEPT !.username = IF usernameLowerCase THEN ToLowerCase(@) ELSE @]

\* (a variant of PreSave that leaves the username as it was given)
PreSaveKeepsUsername(d) ==
    [d EXCEPT !.email = IF @ # Absent THEN ToLowerCase(@) ELSE @]

(* lines 74-84: the pre-save hook *)
PreSave(d) ==
    [d EXCEPT !.username = IF usernameLowerCase THEN ToLowerCase(@) ELSE @,
              !.email = IF @ # Absent THEN ToLowerCase(@) ELSE @]

(* lines 259-283: findByUsername; findOne gives the first match in natural   *)
(* order, 0 stands for null                                                 *)
\* (a variant of UsernameQuery that lower-cases whatever the option says)
UsernameQueryAlwaysLower(username) == ToLowerCase(username)

\* (a variant of UsernameQuery that never lower-cases)
UsernameQueryKeepsCase(username) == username

\* lines 263-267: the username the query asks for
UsernameQuery(username) ==
    IF usernameLowerCase THEN ToLowerCase(username) ELSE username

FindByUsername(username) ==
    LET hits == {i \in 1..Len(store) : store[i].username = UsernameQuery(username)}
    IN IF hits = {} THEN 0 ELSE CHOOSE i \in hits : \A j \in hits : i <= j

\* (a variant of EmailQuery that keeps the case of the email)
EmailQueryKeepsCase(email) == email

\* lines 289-293: the email the query asks for
EmailQuery(email) == ToLowerCase(email)

(* lines 285-309: findByEmail *)
FindByEmail(email) ==
    LET hits == {i \in 1..Len(store) : store[i].email = EmailQuery(email)}
    IN IF hits = {} THEN 0 ELSE CHOOSE i \in hits : \A j \in hits : i <= j

(* ------------------------------- Init ---------------------------------- *)
Init ==
    /\ limitAttempts \in BOOLEAN
    /\ usernameLowerCase \in BOOLEAN
    /\ messages = DefaultMessages
    /\ now = 0
    /\ store = <<>>
    /\ pendingSaves = {}
    /\ pc = [p \in Procs |-> "idle"]
    /\ args = [p \in Procs |-> NoArgs]
    /\ doc = [p \in Procs |-> NoDoc]
    /\ result = [p \in Procs |-> NoResult]
    /\ trace = [p \in Procs |-> <<>>]
    /\ loaded = [p \in Procs |-> NoDoc]
    /\ cbCount = [p \in Procs |-> 0]

\* (a variant of Return in which the caller's callback runs twice)
ReturnTwice(p, r) ==
    /\ pc' = [pc EXCEPT ![p] = "idle"]
    /\ result' = [result EXCEPT ![p] = r]
    /\ cbCount' = [cbCount EXCEPT ![p] = @ + 2]

\* the caller's callback runs with result r: the call is over
Return(p, r) ==
    /\ pc' = [pc EXCEPT ![p] = "idle"]
    /\ result' = [result EXCEPT ![p] = r]
    /\ cbCount' = [cbCount EXCEPT ![p] = @ + 1]

\* the call goes on, waiting for the callback named next
Await(p, next) ==
    /\ pc' = [pc EXCEPT ![p] = next]
    /\ UNCHANGED <<result, cbCount>>

\* a call that ends in the caller's own turn, before any callback is awaited
ReturnAtOnce(p, r) ==
    /\ pc' = [pc EXCEPT ![p] = "idle"]
    /\ result' = [result EXCEPT ![p] = r]
    /\ cbCount' = [cbCount EXCEPT ![p] = 1]

\* a new call that goes on to wait for the callback named next
AwaitFirst(p, next) ==
    /\ pc' = [pc EXCEPT ![p] = next]
    /\ result' = [result EXCEPT ![p] = NoResult]
    /\ cbCount' = [cbCount EXCEPT ![p] = 0]

\* a collaborator is called
Called(p, what) == trace' = [trace EXCEPT ![p] = Append(@, what)]

\* the calls in progress that run operation op
Running(op) == {q \in Procs : pc[q] # "idle" /\ args[q].op = op}

\* no new call starts once a bound of the model is reached
WithinBounds ==
    /\ \A i \in 1..Len(store) : store[i].attempts < MaxAttempts
    /\ Cardinality(pendingSaves) + Cardinality(Running("authenticate")) < MaxPending

\* a register call may add a document
RoomForRecord == Len(store) + Cardinality(Running("register")) < MaxRecords

(* the clock advances *)
Tick(limit) ==
    /\ now < limit
    /\ now' = now + 1
    /\ UNCHANGED <<options, store, pendingSaves, pc, args, doc, result, trace,
                   loaded, cbCount>>

(* ---------------------- statics.register (209-257) --------------------- *)
\* (a variant of MissingField that checks the email first)
MissingFieldEmailFirst(username, email) ==
    IF email = Absent THEN "missingEmail"
    ELSE IF username = Absent THEN "missingUsername"
    ELSE "none"

\* lines 215-221: the identifier checks, in the order of the code
MissingField(username, email) ==
    IF username = Absent THEN "missingUsername"
    ELSE IF email = Absent THEN "missingEmail"
    ELSE "none"

\* (a variant of PasswordMissing that lets every password through)
PasswordNeverMissing(password) == FALSE

\* line 87: !password
PasswordMissing(password) == password = Absent

(* lines 209-224: the candidate is made a document, the two identifier      *)
(* checks run, findByUsername is issued                                     *)
RegisterCall(p, username, email, password) ==
    /\ pc[p] = "idle"
    /\ WithinBounds
    /\ RoomForRecord
    /\ args' = [args EXCEPT ![p] = [op |-> "register", name |-> username,
                                    email |-> email, password |-> password,
                                    salt |-> Absent]]
    /\ doc' = [doc EXCEPT ![p] = NewDoc(username, email)]
    /\ loaded' = [loaded EXCEPT ![p] = NoDoc]
    /\ IF MissingField(username, email) # "none"
       THEN /\ ReturnAtOnce(p, Error(MissingField(username, email)))
            /\ trace' = [trace EXCEPT ![p] = <<>>]
       ELSE /\ AwaitFirst(p, "reg_findByUsername")
            /\ trace' = [trace EXCEPT ![p] = <<"findByUsername">>]
    /\ UNCHANGED <<options, now, store, pendingSaves>>

\* (a variant of RegFindByUsername that also refuses a primary identifier
\* which a stored record has as its secondary identifier)
RegFindByUsernameChecksEmails(p) ==
    /\ pc[p] = "reg_findByUsername"
    /\ \/ /\ Return(p, Error("storeError"))
          /\ UNCHANGED trace
       \/ /\ FindByUsername(doc[p].username) # 0
                \/ FindByEmail(doc[p].username) # 0
          /\ Return(p, Error("usernameExists"))
          /\ UNCHANGED trace
       \/ /\ FindByUsername(doc[p].username) = 0
          /\ FindByEmail(doc[p].username) = 0
          /\ Await(p, "reg_findByEmail")
          /\ Called(p, "findByEmail")
    /\ UNCHANGED <<options, now, store, pendingSaves, args, doc, loaded>>

(* lines 224-233: the callback of findByUsername *)
RegFindByUsername(p) ==
    /\ pc[p] = "reg_findByUsername"
    /\ \/ /\ Return(p, Error("storeError"))
          /\ UNCHANGED trace
       \/ /\ FindByUsername(doc[p].username) # 0
          /\ Return(p, Error("usernameExists"))
          /\ UNCHANGED trace
       \/ /\ FindByUsername(doc[p].username) = 0
          /\ Await(p, "reg_findByEmail")
          /\ Called(p, "findByEmail")
    /\ UNCHANGED <<options, now, store, pendingSaves, args, doc, loaded>>

\* (a variant of RegFindByEmail that looks at the password before the result
\* of the lookup)
RegFindByEmailPasswordFirst(p) ==
    /\ pc[p] = "reg_findByEmail"
    /\ \/ /\ Return(p, Error("storeError"))
          /\ UNCHANGED trace
       \/ /\ PasswordMissing(args[p].password)
          /\ Return(p, Error("missingPassword"))
          /\ UNCHANGED trace
       \/ /\ ~PasswordMissing(args[p].password)
          /\ FindByEmail(doc[p].email) # 0
          /\ Return(p, Error("emailExists"))
          /\ UNCHANGED trace
       \/ /\ ~PasswordMissing(args[p].password)
          /\ FindByEmail(doc[p].email) = 0
          /\ Await(p, "reg_randomBytes")
          /\ Called(p, "randomBytes")
    /\ UNCHANGED <<options, now, store, pendingSaves, args, doc, loaded>>

(* lines 233-242 and 86-93: the callback of findByEmail; the call of        *)
(* setPassword runs in the same turn up to crypto.randomBytes               *)
RegFindByEmail(p) ==
    /\ pc[p] = "reg_findByEmail"
    /\ \/ /\ Return(p, Error("storeError"))
          /\ UNCHANGED trace
       \/ /\ FindByEmail(doc[p].email) # 0
          /\ Return(p, Error("emailExists"))
          /\ UNCHANGED trace
       \/ /\ FindByEmail(doc[p].email) = 0
          /\ IF PasswordMissing(args[p].password)
             THEN /\ Return(p, Error("missingPassword"))
                  /\ UNCHANGED trace
             ELSE /\ Await(p, "reg_randomBytes")
                  /\ Called(p, "randomBytes")
    /\ UNCHANGED <<options, now, store, pendingSaves, args, doc, loaded>>

(* lines 93-100: the callback of crypto.randomBytes *)
RegRandomBytes(p, salts) ==
    /\ pc[p] = "reg_randomBytes"
    /\ \/ /\ Return(p, Error("cryptoError"))
          /\ UNCHANGED <<trace, args>>
       \/ \E salt \in salts :
             /\ args' = [args EXCEPT ![p].salt = salt]
             /\ Await(p, "reg_pbkdf2")
             /\ Called(p, "pbkdf2")
    /\ UNCHANGED <<options, now, store, pendingSaves, doc, loaded>>

\* (a variant of SetHashAndSalt that sets the hash and leaves the salt)
SetHashOnly(d, password, salt) ==
    [d EXCEPT !.hash = EncodeHash(Pbkdf2(password, salt)), !.secret = password]

\* (a variant of SetHashAndSalt that also clears the throttle fields)
SetHashAndSaltResets(d, password, salt) ==
    [d EXCEPT !.hash = EncodeHash(Pbkdf2(password, salt)), !.salt = salt,
              !.secret = password, !.attempts = 0, !.last = 0]

\* lines 105-106: setPassword sets the hash and the salt of the document
SetHashAndSalt(d, password, salt) ==
    [d EXCEPT !.hash = EncodeHash(Pbkdf2(password, salt)), !.salt = salt,
              !.secret = password]

(* lines 100-109 and 242-247: the callback of crypto.pbkdf2, then the       *)
(* callback register gave setPassword, which issues user.save               *)
RegPbkdf2(p) ==
    /\ pc[p] = "reg_pbkdf2"
    /\ \/ /\ Return(p, Error("cryptoError"))
          /\ UNCHANGED <<trace, doc>>
       \/ /\ doc' = [doc EXCEPT ![p] =
                        SetHashAndSalt(@, args[p].password, args[p].salt)]
          /\ Await(p, "reg_save")
          /\ Called(p, "save")
    /\ UNCHANGED <<options, now, store, pendingSaves, args, loaded>>

\* (a variant of RegSave that checks the identifiers again as it saves)
RegSaveChecksAgain(p) ==
    /\ pc[p] = "reg_save"
    /\ \/ /\ Return(p, Error("storeError"))
          /\ UNCHANGED <<store, doc>>
       \/ /\ FindByUsername(doc[p].username) # 0 \/ FindByEmail(doc[p].email) # 0
          /\ Return(p, Error("usernameExists"))
          /\ UNCHANGED <<store, doc>>
       \/ /\ FindByUsername(doc[p].username) = 0
          /\ FindByEmail(doc[p].email) = 0
          /\ store' = Append(store, Stored(PreSave(doc[p])))
          /\ doc' = [doc EXCEPT ![p] = [PreSave(@) EXCEPT !.id = Len(store) + 1]]
          /\ Return(p, Ok)
    /\ UNCHANGED <<options, now, pendingSaves, args, trace, loaded>>

(* lines 247-253 with the pre-save hook: the callback of user.save *)
RegSave(p) ==
    /\ pc[p] = "reg_save"
    /\ \/ /\ Return(p, Error("storeError"))
          /\ UNCHANGED <<store, doc>>
       \/ /\ store' = Append(store, Stored(PreSave(doc[p])))
          /\ doc' = [doc EXCEPT ![p] = [PreSave(@) EXCEPT !.id = Len(store) + 1]]
          /\ Return(p, Ok)
    /\ UNCHANGED <<options, now, pendingSaves, args, trace, loaded>>

(* --------------------- methods.authenticate (113-162) ------------------ *)
\* a save of the paths a call has set: attempts = Keep leaves the counter alone
Keep == -1

\* (a variant of SaveOf that writes the last the document was read with)
SaveOfStoredLast(d, attempts) ==
    [id |-> d.id, last |-> store[d.id].last, attempts |-> attempts]

\* lines 121-122, 145-147, 152-154: the paths set before save() is called
SaveOf(d, attempts) == [id |-> d.id, last |-> d.last, attempts |-> attempts]

\* (a variant of Authenticate that records the attempt before the salt check)
AuthenticateRecordsUnsalted(p, d) ==
    /\ loaded' = [loaded EXCEPT ![p] = d]
    /\ IF limitAttempts /\ (TooSoon(now, d.last, d.attempts) \/ d.salt = Absent)
       THEN /\ doc' = [doc EXCEPT ![p] = [d EXCEPT !.last = now]]
            /\ pendingSaves' = pendingSaves \cup {SaveOf(doc'[p], Keep)}
            /\ Called(p, "save")
            /\ Return(p, IF TooSoon(now, d.last, d.attempts)
                         THEN Fail("attemptTooSoon")
                         ELSE Fail("noSaltValueStored"))
       ELSE IF d.salt = Absent
       THEN /\ doc' = [doc EXCEPT ![p] = d]
            /\ Return(p, Fail("noSaltValueStored"))
            /\ UNCHANGED <<pendingSaves, trace>>
       ELSE /\ doc' = [doc EXCEPT ![p] = d]
            /\ Await(p, "auth_pbkdf2")
            /\ Called(p, "pbkdf2")
            /\ UNCHANGED pendingSaves

(* lines 113-136: the turn in which authenticate is called on document d:   *)
(* the throttle check, the salt check, the call of crypto.pbkdf2            *)
Authenticate(p, d) ==
    /\ loaded' = [loaded EXCEPT ![p] = d]
    /\ IF limitAttempts /\ TooSoon(now, d.last, d.attempts)
       THEN /\ doc' = [doc EXCEPT ![p] = [d EXCEPT !.last = now]]
            /\ pendingSaves' = pendingSaves \cup {SaveOf(doc'[p], Keep)}
            /\ Called(p, "save")
            /\ Return(p, Fail("attemptTooSoon"))
       ELSE IF d.salt = Absent
       THEN /\ doc' = [doc EXCEPT ![p] = d]
            /\ Return(p, Fail("noSaltValueStored"))
            /\ UNCHANGED <<pendingSaves, trace>>
       ELSE /\ doc' = [doc EXCEPT ![p] = d]
            /\ Await(p, "auth_pbkdf2")
            /\ Called(p, "pbkdf2")
            /\ UNCHANGED pendingSaves

\* (a variant of AuthPbkdf2 that counts a failed key derivation as a failed
\* verification)
AuthPbkdf2CountsError(p) ==
    /\ pc[p] = "auth_pbkdf2"
    /\ \/ /\ IF limitAttempts
             THEN /\ doc' = [doc EXCEPT ![p] =
                       [@ EXCEPT !.last = now,
                                 !.attempts = AttemptsAfterFailure(@)]]
                  /\ pendingSaves' = pendingSaves \cup
                                        {SaveOf(doc'[p], doc'[p].attempts)}
                  /\ Called(p, "save")
             ELSE UNCHANGED <<doc, pendingSaves, trace>>
          /\ Return(p, Error("cryptoError"))
       \/ /\ HashMatches(args[p].password, doc[p].salt, doc[p].hash)
          /\ IF limitAttempts
             THEN /\ doc' = [doc EXCEPT ![p] =
                       [@ EXCEPT !.last = now,
                                 !.attempts = AttemptsAfterSuccess(@)]]
                  /\ pendingSaves' = pendingSaves \cup
                                        {SaveOf(doc'[p], doc'[p].attempts)}
                  /\ Called(p, "save")
             ELSE UNCHANGED <<doc, pendingSaves, trace>>
          /\ Return(p, Ok)
       \/ /\ ~HashMatches(args[p].password, doc[p].salt, doc[p].hash)
          /\ IF limitAttempts
             THEN /\ doc' = [doc EXCEPT ![p] =
                       [@ EXCEPT !.last = now,
                                 !.attempts = AttemptsAfterFailure(@)]]
                  /\ pendingSaves' = pendingSaves \cup
                                        {SaveOf(doc'[p], doc'[p].attempts)}
                  /\ Called(p, "save")
             ELSE UNCHANGED <<doc, pendingSaves, trace>>
          /\ Return(p, Fail("incorrectPassword"))
    /\ UNCHANGED <<options, now, store, args, loaded>>

\* (a variant of AuthPbkdf2 that counts a failed verification whether or not
\* throttling is enabled)
AuthPbkdf2AlwaysCounts(p) ==
    /\ pc[p] = "auth_pbkdf2"
    /\ \/ /\ Return(p, Error("cryptoError"))
          /\ UNCHANGED <<doc, pendingSaves, trace>>
       \/ /\ HashMatches(args[p].password, doc[p].salt, doc[p].hash)
          /\ IF limitAttempts
             THEN /\ doc' = [doc EXCEPT ![p] =
                       [@ EXCEPT !.last = now,
                                 !.attempts = AttemptsAfterSuccess(@)]]
                  /\ pendingSaves' = pendingSaves \cup
                                        {SaveOf(doc'[p], doc'[p].attempts)}
                  /\ Called(p, "save")
             ELSE UNCHANGED <<doc, pendingSaves, trace>>
          /\ Return(p, Ok)
       \/ /\ ~HashMatches(args[p].password, doc[p].salt, doc[p].hash)
          /\ doc' = [doc EXCEPT ![p] =
                       [@ EXCEPT !.last = now,
                                 !.attempts = AttemptsAfterFailure(@)]]
          /\ pendingSaves' = pendingSaves \cup
                                {SaveOf(doc'[p], doc'[p].attempts)}
          /\ Called(p, "save")
          /\ Return(p, Fail("incorrectPassword"))
    /\ UNCHANGED <<options, now, store, args, loaded>>

(* lines 136-161: the callback of crypto.pbkdf2 *)
AuthPbkdf2(p) ==
    /\ pc[p] = "auth_pbkdf2"
    /\ \/ /\ Return(p, Error("cryptoError"))
          /\ UNCHANGED <<doc, pendingSaves, trace>>
       \/ /\ HashMatches(args[p].password, doc[p].salt, doc[p].hash)
          /\ IF limitAttempts
             THEN /\ doc' = [doc EXCEPT ![p] =
                       [@ EXCEPT !.last = now,
                                 !.attempts = AttemptsAfterSuccess(@)]]
                  /\ pendingSaves' = pendingSaves \cup
                                        {SaveOf(doc'[p], doc'[p].attempts)}
                  /\ Called(p, "save")
             ELSE UNCHANGED <<doc, pendingSaves, trace>>
          /\ Return(p, Ok)
       \/ /\ ~HashMatches(args[p].password, doc[p].salt, doc[p].hash)
          /\ IF limitAttempts
             THEN /\ doc' = [doc EXCEPT ![p] =
                       [@ EXCEPT !.last = now,
                                 !.attempts = AttemptsAfterFailure(@)]]
                  /\ pendingSaves' = pendingSaves \cup
                                        {SaveOf(doc'[p], doc'[p].attempts)}
                  /\ Called(p, "save")
             ELSE UNCHANGED <<doc, pendingSaves, trace>>
          /\ Return(p, Fail("incorrectPassword"))
    /\ UNCHANGED <<options, now, store, args, loaded>>

\* (a variant of SaveApplied in which the store adds to the counter it holds)
SaveAppliedIncrements(w) ==
    /\ w \in pendingSaves
    /\ pendingSaves' = pendingSaves \ {w}
    /\ store' = [store EXCEPT ![w.id] =
                   [@ EXCEPT !.last = w.last,
                             !.attempts = IF w.attempts = Keep THEN @
                                          ELSE IF w.attempts = 0 THEN 0
                                          ELSE @ + 1]]
    /\ UNCHANGED <<options, now, pc, args, doc, result, trace, loaded, cbCount>>

(* lines 122, 147, 154: a save issued without a callback reaches the store: *)
(* the paths the call has set are written                                   *)
SaveApplied(w) ==
    /\ w \in pendingSaves
    /\ pendingSaves' = pendingSaves \ {w}
    /\ store' = [store EXCEPT ![w.id] =
                   [@ EXCEPT !.last = w.last,
                             !.attempts = IF w.attempts = Keep THEN @
                                          ELSE w.attempts]]
    /\ UNCHANGED <<options, now, pc, args, doc, result, trace, loaded, cbCount>>

(* the same save fails in the store: there is no callback to tell *)
SaveFailed(w) ==
    /\ w \in pendingSaves
    /\ pendingSaves' = pendingSaves \ {w}
    /\ UNCHANGED <<options, now, store, pc, args, doc, result, trace, loaded,
                   cbCount>>

(* --------------------- statics.authenticate (164-193) ------------------ *)
(* lines 167-168: findByUsername is issued *)
AuthCall(p, usernameOrEmail, password) ==
    /\ pc[p] = "idle"
    /\ WithinBounds
    /\ args' = [args EXCEPT ![p] = [op |-> "authenticate",
                                    name |-> usernameOrEmail, email |-> Absent,
                                    password |-> password, salt |-> Absent]]
    /\ doc' = [doc EXCEPT ![p] = NoDoc]
    /\ loaded' = [loaded EXCEPT ![p] = NoDoc]
    /\ trace' = [trace EXCEPT ![p] = <<"findByUsername">>]
    /\ AwaitFirst(p, "auth_findByUsername")
    /\ UNCHANGED <<options, now, store, pendingSaves>>

(* lines 168-177: the callback of findByUsername *)
AuthFindByUsername(p) ==
    /\ pc[p] = "auth_findByUsername"
    /\ \/ /\ Return(p, Error("storeError"))
          /\ UNCHANGED <<doc, loaded, pendingSaves, trace>>
       \/ /\ FindByUsername(args[p].name) # 0
          /\ Authenticate(p, Load(FindByUsername(args[p].name)))
       \/ /\ FindByUsername(args[p].name) = 0
          /\ Await(p, "auth_findByEmail")
          /\ Called(p, "findByEmail")
          /\ UNCHANGED <<doc, loaded, pendingSaves>>
    /\ UNCHANGED <<options, now, store, args>>

(* lines 177-190: the callback of findByEmail *)
AuthFindByEmail(p) ==
    /\ pc[p] = "auth_findByEmail"
    /\ \/ /\ Return(p, Error("storeError"))
          /\ UNCHANGED <<doc, loaded, pendingSaves, trace>>
       \/ /\ FindByEmail(args[p].name) # 0
          /\ Authenticate(p, Load(FindByEmail(args[p].name)))
       \/ /\ FindByEmail(args[p].name) = 0
          /\ Return(p, Fail("incorrectUsername"))
          /\ UNCHANGED <<doc, loaded, pendingSaves, trace>>
    /\ UNCHANGED <<options, now, store, args>>

(* ------------- documents the application handles itself ---------------- *)
(* The plugin adds its fields and methods to the application's schema       *)
(* (lines 44-72, 86-111): the application can construct a document, call    *)
(* setPassword on a document it holds and save the document itself.         *)
\* new Model({username: ..., email: ...})
NewUser(p, username, email) ==
    /\ pc[p] = "idle"
    /\ args' = [args EXCEPT ![p] = [NoArgs EXCEPT !.op = "new", !.name = username,
                                                 !.email = email]]
    /\ doc' = [doc EXCEPT ![p] = NewDoc(username, email)]
    /\ loaded' = [loaded EXCEPT ![p] = NoDoc]
    /\ trace' = [trace EXCEPT ![p] = <<>>]
    /\ result' = [result EXCEPT ![p] = NoResult]
    /\ cbCount' = [cbCount EXCEPT ![p] = 0]
    /\ UNCHANGED <<options, now, store, pendingSaves, pc>>

(* lines 86-93: setPassword called on the document the caller holds *)
SetPasswordCall(p, password) ==
    /\ pc[p] = "idle"
    /\ args[p].op # "none"
    /\ args' = [args EXCEPT ![p] = [NoArgs EXCEPT !.op = "setPassword",
                                                 !.name = doc[p].username,
                                                 !.email = doc[p].email,
                                                 !.password = password]]
    /\ loaded' = [loaded EXCEPT ![p] = doc[p]]
    /\ IF PasswordMissing(password)
       THEN /\ ReturnAtOnce(p, Error("missingPassword"))
            /\ trace' = [trace EXCEPT ![p] = <<>>]
       ELSE /\ AwaitFirst(p, "set_randomBytes")
            /\ trace' = [trace EXCEPT ![p] = <<"randomBytes">>]
    /\ UNCHANGED <<options, now, store, pendingSaves, doc>>

(* lines 93-100: the callback of crypto.randomBytes *)
SetPasswordRandomBytes(p, salts) ==
    /\ pc[p] = "set_randomBytes"
    /\ \/ /\ Return(p, Error("cryptoError"))
          /\ UNCHANGED <<trace, args>>
       \/ \E salt \in salts :
             /\ args' = [args EXCEPT ![p].salt = salt]
             /\ Await(p, "set_pbkdf2")
             /\ Called(p, "pbkdf2")
    /\ UNCHANGED <<options, now, store, pendingSaves, doc, loaded>>

(* lines 100-109: the callback of crypto.pbkdf2 *)
SetPasswordPbkdf2(p) ==
    /\ pc[p] = "set_pbkdf2"
    /\ \/ /\ Return(p, Error("cryptoError"))
          /\ UNCHANGED doc
       \/ /\ doc' = [doc EXCEPT ![p] =
                        SetHashAndSalt(@, args[p].password, args[p].salt)]
          /\ Return(p, Ok)
    /\ UNCHANGED <<options, now, store, pendingSaves, args, trace, loaded>>

(* the application saves the document it holds: a new document is inserted  *)
(* after the pre-save hook (lines 74-84), under the unique indexes the       *)
(* schema declares (lines 46-57); a stored document has the hash and the     *)
(* salt written that setPassword set                                        *)
UserSave(p) ==
    /\ pc[p] = "idle"
    /\ args[p].op \in {"new", "setPassword"}
    /\ doc[p].username # Absent
    /\ doc[p].email # Absent
    /\ IF doc[p].id = 0
       THEN /\ Len(store) < MaxRecords
            /\ FindByUsername(doc[p].username) = 0
            /\ FindByEmail(doc[p].email) = 0
            /\ store' = Append(store, Stored(PreSave(doc[p])))
            /\ doc' = [doc EXCEPT ![p] = [PreSave(@) EXCEPT !.id = Len(store) + 1]]
       ELSE /\ store' = [store EXCEPT ![doc[p].id] =
                            [@ EXCEPT !.hash = doc[p].hash, !.salt = doc[p].salt,
                                      !.secret = doc[p].secret]]
            /\ UNCHANGED doc
    /\ args' = [args EXCEPT ![p].op = "saved"]
    /\ UNCHANGED <<options, now, pendingSaves, pc, result, trace, loaded, cbCount>>

\* the steps of caller p on documents it handles itself
OwnStep(p, usernames, emails, secrets, salts) ==
    \/ \E u \in usernames, e \in emails : NewUser(p, u, e)
    \/ \E pw \in secrets : SetPasswordCall(p, pw)
    \/ SetPasswordRandomBytes(p, salts)
    \/ SetPasswordPbkdf2(p)
    \/ UserSave(p)

(* ------------------------- the specifications -------------------------- *)
\* the steps of caller p; its calls take their arguments from the given sets
Step(p, usernames, emails, secrets, salts, logins) ==
    \/ \E u \in usernames, e \in emails, pw \in secrets : RegisterCall(p, u, e, pw)
    \/ RegFindByUsername(p)
    \/ RegFindByEmail(p)
    \/ RegRandomBytes(p, salts)
    \/ RegPbkdf2(p)
    \/ RegSave(p)
    \/ \E n \in logins, pw \in Passwords : AuthCall(p, n, pw)
    \/ AuthFindByUsername(p)
    \/ AuthFindByEmail(p)
    \/ AuthPbkdf2(p)


\* the plugin applied without options.limitAttempts
InitThrottlingOff == Init /\ limitAttempts = FALSE

\* the plugin applied with options.limitAttempts
InitThrottlingOn == Init /\ limitAttempts = TRUE

\* one caller, every call starting after the call before it has returned;
\* throttling disabled, so that no save is issued without a callback
NextSeq ==
    Step(1, Idents \cup {Absent}, Idents \cup {Absent}, Passwords \cup {Absent},
         Salts, Idents)

SpecSeq == InitThrottlingOff /\ [][NextSeq]_vars

\* one caller and one account, throttling enabled, followed over MaxTime; the
\* store applies every save
NextThrottle ==
    \/ Tick(MaxTime)
    \/ \E w \in pendingSaves : SaveApplied(w)
    \/ Step(1, {"a"}, {"b"}, {"p"}, {"s1"}, {"a"})

SpecThrottle == InitThrottlingOn /\ [][NextThrottle]_vars

\* one caller, throttling enabled, followed over ShortTime; logins by either
\* identifier in either case; the store's saves can fail
NextLookup ==
    \/ Tick(ShortTime)
    \/ \E w \in pendingSaves : SaveApplied(w)
    \/ \E w \in pendingSaves : SaveFailed(w)
    \/ Step(1, {"a", "A"}, {"b"}, {"p"}, {"s1"}, Idents)

SpecLookup == InitThrottlingOn /\ [][NextLookup]_vars

\* one caller that registers and authenticates, and also constructs, sets the
\* password of and saves documents itself; either setting of limitAttempts
NextSecret ==
    \/ Tick(ShortTime)
    \/ \E w \in pendingSaves : SaveApplied(w)
    \/ \E w \in pendingSaves : SaveFailed(w)
    \/ Step(1, {"a"}, {"b"}, {"p", Absent}, {"s1"}, {"a"})
    \/ OwnStep(1, {"a"}, {"b"}, {"q", Absent}, {"s2"})

SpecSecret == Init /\ [][NextSecret]_vars

\* one caller that knows the secret, logins by either identifier in either
\* case, the secondary identifiers given in either case; either setting of
\* limitAttempts; the store applies every save
NextEmail ==
    \/ Tick(ShortTime)
    \/ \E w \in pendingSaves : SaveApplied(w)
    \/ \E u \in {"a", "b"}, e \in {"a", "A", "b"} : RegisterCall(1, u, e, "p")
    \/ RegFindByUsername(1)
    \/ RegFindByEmail(1)
    \/ RegRandomBytes(1, {"s1"})
    \/ RegPbkdf2(1)
    \/ RegSave(1)
    \/ \E n \in Idents : AuthCall(1, n, "p")
    \/ AuthFindByUsername(1)
    \/ AuthFindByEmail(1)
    \/ AuthPbkdf2(1)

SpecEmail == Init /\ [][NextEmail]_vars

\* one caller and one account, throttling enabled, followed over MaxTime; the
\* store's saves can fail
NextLossy ==
    \/ Tick(MaxTime)
    \/ \E w \in pendingSaves : SaveApplied(w)
    \/ \E w \in pendingSaves : SaveFailed(w)
    \/ Step(1, {"a"}, {"b"}, {"p"}, {"s1"}, {"a"})

SpecLossy == InitThrottlingOn /\ [][NextLossy]_vars

\* two callers on one account, their calls overlapping; throttling enabled;
\* the store applies every save
NextRace ==
    \/ Tick(ShortTime)
    \/ \E w \in pendingSaves : SaveApplied(w)
    \/ \E p \in Procs : Step(p, {"a"}, {"b"}, {"p"}, {"s1"}, {"a"})

SpecRace == InitThrottlingOn /\ [][NextRace]_vars

\* a record that register has stored and that n failed verifications have
\* left with attempts = n, time counted from its last attempt
LockedRecord(n) ==
    [Stored(PreSave(SetHashAndSalt(NewDoc("a", "b"), "p", "s1")))
        EXCEPT !.attempts = n, !.last = 0]

InitLocked ==
    /\ limitAttempts = TRUE
    /\ usernameLowerCase = FALSE
    /\ messages = DefaultMessages
    /\ now = 0
    /\ \E n \in 0..(MaxAttempts - 1) : store = <<LockedRecord(n)>>
    /\ pendingSaves = {}
    /\ pc = [p \in Procs |-> "idle"]
    /\ args = [p \in Procs |-> NoArgs]
    /\ doc = [p \in Procs |-> NoDoc]
    /\ result = [p \in Procs |-> NoResult]
    /\ trace = [p \in Procs |-> <<>>]
    /\ loaded = [p \in Procs |-> NoDoc]
    /\ cbCount = [p \in Procs |-> 0]

\* one caller authenticating on that record by its primary identifier,
\* followed over MaxTime; the store applies every save
NextLocked ==
    \/ Tick(MaxTime)
    \/ \E w \in pendingSaves : SaveApplied(w)
    \/ \E pw \in Passwords : AuthCall(1, "a", pw)
    \/ AuthFindByUsername(1)
    \/ AuthPbkdf2(1)

SpecLocked == InitLocked /\ [][NextLocked]_vars

\* the plugin applied with options.limitAttempts and with any texts for the
\* four failures, the defaults or configured ones
InitMessages ==
    /\ limitAttempts = TRUE
    /\ usernameLowerCase = FALSE
    /\ messages \in [FailureCodes -> Texts] \cup {DefaultMessages}
    /\ now = 0
    /\ store = <<>>
    /\ pendingSaves = {}
    /\ pc = [p \in Procs |-> "idle"]
    /\ args = [p \in Procs |-> NoArgs]
    /\ doc = [p \in Procs |-> NoDoc]
    /\ result = [p \in Procs |-> NoResult]
    /\ trace = [p \in Procs |-> <<>>]
    /\ loaded = [p \in Procs |-> NoDoc]
    /\ cbCount = [p \in Procs |-> 0]

SpecMessages == InitMessages /\ [][NextSecret]_vars

\* one caller, two accounts whose primary and secondary identifiers are
\* drawn from the same strings, each with either secret; throttling enabled,
\* followed over ShortTime; the store applies every save
NextPrecedence ==
    \/ Tick(ShortTime)
    \/ \E w \in pendingSaves : SaveApplied(w)
    \/ Step(1, {"a", "b"}, {"a", "b"}, Passwords, {"s1"}, {"a"})

\* the plugin applied with options.limitAttempts, usernameLowerCase left out
InitPrecedence == InitThrottlingOn /\ usernameLowerCase = FALSE

SpecPrecedence == InitPrecedence /\ [][NextPrecedence]_vars

\* the callbacks caller p can be waiting for: each collaborator calls back
Callbacks(p) ==
    \/ RegFindByUsername(p)
    \/ RegFindByEmail(p)
    \/ RegRandomBytes(p, {"s1"})
    \/ RegPbkdf2(p)
    \/ RegSave(p)
    \/ AuthFindByUsername(p)
    \/ AuthFindByEmail(p)
    \/ AuthPbkdf2(p)
    \/ SetPasswordRandomBytes(p, {"s2"})
    \/ SetPasswordPbkdf2(p)

\* the caller of SpecSecret, every store and crypto collaborator calling back
SpecFair == Init /\ [][NextSecret]_vars /\ WF_vars(Callbacks(1))

\* two callers, their calls overlapping
Next ==
    \/ Tick(ShortTime)
    \/ \E w \in pendingSaves : SaveApplied(w)
    \/ \E w \in pendingSaves : SaveFailed(w)
    \/ \E p \in Procs : Step(p, {"a", "A"}, {"a", "b"}, {"p"}, {"s1"}, {"a", "b"})

Spec == Init /\ [][Next]_vars

(* ============================ the properties =========================== *)
\* the delay of the throttle for a failure count: interval ^ ln(count + 1),
\* at most maxInterval
SpecDelay(failureCount) ==
    IF AttemptsInterval(failureCount) > maxInterval THEN maxInterval
    ELSE AttemptsInterval(failureCount)

\* caller p's authenticate call has returned
AuthReturned(p) == args[p].op = "authenticate" /\ pc[p] = "idle"

\* caller p's register call has returned
RegReturned(p) == args[p].op = "register" /\ pc[p] = "idle"

\* the documents whose primary identifier a string names
PrimaryHolders(name) ==
    {i \in 1..Len(store) :
        store[i].username = IF usernameLowerCase THEN ToLowerCase(name) ELSE name}

\* the documents whose secondary identifier a string names
SecondaryHolders(name) ==
    {i \in 1..Len(store) : store[i].email = ToLowerCase(name)}

(* C1: with throttling enabled, an authenticate attempt that arrives at a    *)
(* record less than the computed delay after the record's lastAttemptAt      *)
(* returns TooSoon, whatever secret it carries.  The step in which the       *)
(* lookup of an attempt delivers record r is the arrival; store[r.id] is the *)
(* persisted record at that moment.                                          *)
C1_ThrottledAttemptIsRejected ==
    [][\A p \in Procs :
         (/\ args[p].op = "authenticate"
          /\ pc[p] \in {"auth_findByUsername", "auth_findByEmail"}
          /\ loaded'[p].id # 0
          /\ limitAttempts
          /\ now - store[loaded'[p].id].last
                < SpecDelay(store[loaded'[p].id].attempts))
         => /\ pc'[p] = "idle"
            /\ result'[p] = Fail("attemptTooSoon")]_vars

\* after three failures the correct secret is rejected as too soon
C1_Witness ==
    \E p \in Procs :
        /\ AuthReturned(p)
        /\ result[p] = Fail("attemptTooSoon")
        /\ loaded[p].attempts = 3
        /\ args[p].password = loaded[p].secret

(* C2: round trip of the hashing engine.  An authenticate that reaches a     *)
(* record whose password was set to s, that is not throttled and whose key   *)
(* derivation answers, returns the record itself when it carries s and       *)
(* (false, incorrectPassword) when it carries any other secret.              *)
C2_RoundTrip ==
    \A p \in Procs :
        (/\ AuthReturned(p)
         /\ loaded[p].id # 0
         /\ loaded[p].secret # Absent
         /\ result[p].kind # "error"
         /\ result[p] # Fail("attemptTooSoon"))
        => /\ result[p] = IF args[p].password = loaded[p].secret
                          THEN Ok ELSE Fail("incorrectPassword")
           /\ doc[p].id = loaded[p].id
           /\ store[doc[p].id].salt # Absent

C2_Witness ==
    \E p \in Procs :
        /\ AuthReturned(p)
        /\ result[p] = Ok
        /\ args[p].password = "q"
        /\ store[doc[p].id].secret = "q"

(* C3: with throttling enabled, an attempt with an incorrect secret that     *)
(* reached hash verification leaves the persisted failureCount exactly 1     *)
(* higher than the attempt found it, and lastAttemptAt at the attempt's      *)
(* time.  Calls are sequential here; the property is asked of the last       *)
(* returned attempt once no save is in flight any more.                      *)
C3_FailureIsPersisted ==
    \A p \in Procs :
        (/\ AuthReturned(p)
         /\ limitAttempts
         /\ result[p] = Fail("incorrectPassword")
         /\ pendingSaves = {})
        => /\ store[doc[p].id].attempts = loaded[p].attempts + 1
           /\ store[doc[p].id].last = doc[p].last

(* C4: with throttling enabled, an attempt with the correct secret that      *)
(* reached hash verification returns the principal and leaves the persisted  *)
(* failureCount at 0.  Asked of the last returned attempt once no save is in *)
(* flight any more.                                                          *)
C4_SuccessResetsFailureCount ==
    \A p \in Procs :
        (/\ AuthReturned(p)
         /\ limitAttempts
         /\ result[p] = Ok
         /\ pendingSaves = {})
        => store[doc[p].id].attempts = 0

(* C5: the top-level authenticate, called with a string that names no        *)
(* record's primary identifier and no record's secondary identifier, goes    *)
(* from the first lookup to the second and from the second to the result     *)
(* (false, incorrectUsername); the call computes no hash, issues no save and *)
(* leaves the store as it is.  (A lookup that fails is the store's error,    *)
(* not an answer.)                                                           *)
C5_UnknownIdentifier ==
    [][\A p \in Procs :
         (/\ args[p].op = "authenticate"
          /\ pc[p] \in {"auth_findByUsername", "auth_findByEmail"}
          /\ pc'[p] # pc[p]
          /\ PrimaryHolders(args[p].name) = {}
          /\ SecondaryHolders(args[p].name) = {}
          /\ result'[p] # Error("storeError"))
         => /\ store' = store
            /\ pendingSaves' = pendingSaves
            /\ doc'[p] = NoDoc
            /\ IF pc[p] = "auth_findByUsername"
               THEN /\ pc'[p] = "auth_findByEmail"
                    /\ trace'[p] = <<"findByUsername", "findByEmail">>
               ELSE /\ pc'[p] = "idle"
                    /\ result'[p] = Fail("incorrectUsername")
                    /\ trace'[p] = <<"findByUsername", "findByEmail">>]_vars

\* an unknown identifier was refused while the store holds a record
C5_Witness ==
    \E p \in Procs :
        /\ AuthReturned(p)
        /\ result[p] = Fail("incorrectUsername")
        /\ Len(store) > 0
        /\ PrimaryHolders(args[p].name) = {}
        /\ SecondaryHolders(args[p].name) = {}

(* C6: once a register with primary identifier u and secondary identifier e  *)
(* has succeeded, no later register (calls do not overlap) with u or with e  *)
(* succeeds: a register that succeeds leaves exactly one record holding its  *)
(* primary and one holding its secondary identifier.  A later register that  *)
(* passes the checks before the lookup concerned fails with usernameExists   *)
(* when its primary identifier is held, and with emailExists when only its   *)
(* secondary identifier is held.  A register that fails adds no record and   *)
(* changes none: the store changes only in the step that returns success.    *)
C6_DuplicateRegistration ==
    /\ [](\A p \in Procs :
            RegReturned(p) =>
              /\ result[p] = Ok =>
                   /\ Cardinality(PrimaryHolders(args[p].name)) = 1
                   /\ Cardinality(SecondaryHolders(args[p].email)) = 1
              /\ (/\ result[p].kind = "error"
                  /\ result[p] # Error("storeError")
                  /\ args[p].name # Absent
                  /\ args[p].email # Absent
                  /\ PrimaryHolders(args[p].name) # {})
                 => result[p] = Error("usernameExists")
              /\ (/\ result[p].kind = "error"
                  /\ result[p] # Error("storeError")
                  /\ args[p].name # Absent
                  /\ args[p].email # Absent
                  /\ PrimaryHolders(args[p].name) = {}
                  /\ SecondaryHolders(args[p].email) # {})
                 => result[p] = Error("emailExists"))
    /\ [][store' # store =>
            \E p \in Procs : /\ args[p].op = "register"
                             /\ pc[p] = "reg_save"
                             /\ result'[p] = Ok
                             /\ Len(store') = Len(store) + 1
                             /\ SubSeq(store', 1, Len(store)) = store]_vars

\* a second register with a held primary identifier was refused
C6_Witness ==
    \E p \in Procs :
        /\ RegReturned(p)
        /\ result[p] = Error("usernameExists")
        /\ Len(store) = 1
        /\ SecondaryHolders(args[p].email) = {}

(* C7 as stated: a successful register persists a record whose digest and   *)
(* salt are set from the secret, and a following top-level authenticate with *)
(* the record's primary identifier and that secret returns the principal.    *)
C7_RegisteredUserAuthenticates ==
    \A p \in Procs :
        /\ (RegReturned(p) /\ result[p] = Ok) =>
              /\ doc[p].id \in 1..Len(store)
              /\ store[doc[p].id].salt # Absent
              /\ store[doc[p].id].hash =
                    EncodeHash(Pbkdf2(args[p].password, store[doc[p].id].salt))
        /\ (/\ AuthReturned(p)
            /\ result[p].kind # "error"
            /\ \E i \in 1..Len(store) : /\ store[i].username = args[p].name
                                        /\ store[i].secret = args[p].password)
           => /\ result[p] = Ok
              /\ store[doc[p].id].username = args[p].name

(* C7 amended: the same, for an authenticate that is not throttled           *)
(* (throttling is disabled, or the attempt arrives at least the computed     *)
(* delay, 1 ms for a new record, after the record's lastAttemptAt).          *)
C7_RegisteredUserAuthenticatesUnthrottled ==
    \A p \in Procs :
        /\ (RegReturned(p) /\ result[p] = Ok) =>
              /\ doc[p].id \in 1..Len(store)
              /\ store[doc[p].id].salt # Absent
              /\ store[doc[p].id].hash =
                    EncodeHash(Pbkdf2(args[p].password, store[doc[p].id].salt))
        /\ (/\ AuthReturned(p)
            /\ result[p].kind # "error"
            /\ result[p] # Fail("attemptTooSoon")
            /\ \E i \in 1..Len(store) : /\ store[i].username = args[p].name
                                        /\ store[i].secret = args[p].password)
           => /\ result[p] = Ok
              /\ store[doc[p].id].username = args[p].name

\* a registered user has authenticated by the stored username, throttling on
C7_Witness ==
    \E p \in Procs :
        /\ AuthReturned(p)
        /\ limitAttempts
        /\ usernameLowerCase
        /\ result[p] = Ok
        /\ store[doc[p].id].username = args[p].name
        /\ store[doc[p].id].secret = args[p].password

(* C8: a store error raised by a findOne or a save issued during authenticate *)
(* or register is delivered to the caller as the operation's failure: every  *)
(* step in which a save fails in the store runs a caller's callback with     *)
(* that error.                                                               *)
C8_StoreErrorsAreDelivered ==
    [][(\E w \in pendingSaves : SaveFailed(w)) =>
          \E p \in Procs : /\ cbCount'[p] = cbCount[p] + 1
                           /\ result'[p] = Error("storeError")]_vars

(* C9: register with an absent primary identifier fails with missingUsername, *)
(* and with a primary but no secondary identifier fails with missingEmail;   *)
(* in both cases the call ends in the step that starts it, having called no  *)
(* collaborator (no lookup, no save, no random bytes, no key derivation),    *)
(* and that step leaves the store as it is.                                  *)
C9_MissingIdentifier ==
    /\ [](\A p \in Procs :
            (args[p].op = "register" /\ (args[p].name = Absent \/ args[p].email = Absent))
            => /\ pc[p] = "idle"
               /\ trace[p] = <<>>
               /\ cbCount[p] = 1
               /\ result[p] = IF args[p].name = Absent
                              THEN Error("missingUsername")
                              ELSE Error("missingEmail"))
    /\ [][\A p \in Procs :
            (/\ args'[p].op = "register"
             /\ (args'[p].name = Absent \/ args'[p].email = Absent)
             /\ <<args[p], result[p]>> # <<args'[p], result'[p]>>)
            => store' = store /\ pendingSaves' = pendingSaves]_vars

\* a register without a primary identifier was refused, the store not empty
C9_Witness ==
    \E p \in Procs :
        /\ RegReturned(p)
        /\ args[p].name = Absent
        /\ args[p].email = Absent
        /\ result[p] = Error("missingUsername")
        /\ Len(store) > 0

(* C10: a register with an empty or absent secret never succeeds and         *)
(* persists nothing: it calls neither the random source nor the key          *)
(* derivation nor save, the candidate's digest and salt stay unset, and when *)
(* both identifiers are present and held by no record (the checks that come  *)
(* first pass) the error is missingPassword.                                 *)
C10_MissingSecret ==
    \A p \in Procs :
        (args[p].op = "register" /\ args[p].password = Absent)
        => /\ result[p] # Ok
           /\ \A k \in 1..Len(trace[p]) :
                 trace[p][k] \in {"findByUsername", "findByEmail"}
           /\ doc[p].hash = NoHash
           /\ doc[p].salt = Absent
           /\ doc[p].id = 0
           /\ (/\ pc[p] = "idle"
               /\ result[p] # Error("storeError")
               /\ args[p].name # Absent
               /\ args[p].email # Absent
               /\ PrimaryHolders(args[p].name) = {}
               /\ SecondaryHolders(args[p].email) = {})
              => result[p] = Error("missingPassword")

\* a register without a secret was refused after both lookups
C10_Witness ==
    \E p \in Procs :
        /\ RegReturned(p)
        /\ args[p].password = Absent
        /\ result[p] = Error("missingPassword")
        /\ trace[p] = <<"findByUsername", "findByEmail">>
        /\ Len(store) > 0

\* a document's hash and salt are both set or both unset
BothOrNeither(d) == (d.hash = NoHash) <=> (d.salt = Absent)

\* a step of setPassword on caller p's document: the call itself or one of its
\* callbacks, on a document the caller holds or within register
SetPasswordStep(p) ==
    \/ pc[p] \in {"set_randomBytes", "set_pbkdf2", "reg_findByEmail",
                  "reg_randomBytes", "reg_pbkdf2"}
    \/ pc[p] = "idle" /\ args'[p].op = "setPassword" /\ cbCount'[p] # cbCount[p]
    \/ pc[p] = "idle" /\ args'[p].op = "setPassword" /\ pc'[p] # "idle"

\* the step in which setPassword succeeds: it calls back without an error
SetPasswordSucceeds(p) ==
    \/ pc[p] = "set_pbkdf2" /\ result'[p] = Ok
    \/ pc[p] = "reg_pbkdf2" /\ pc'[p] = "reg_save"

(* C11: in every state reached through setPassword and register, every      *)
(* document, in memory or stored, has its hash and its salt both set or     *)
(* both unset.  A step of setPassword that does not succeed (the secret is  *)
(* empty, the random source or the key derivation fails, or the call still  *)
(* waits) leaves both fields as they were, an empty secret being reported   *)
(* as missingPassword; the step in which setPassword succeeds sets the salt *)
(* and the hash derived from the secret and that salt, in the step that     *)
(* runs its callback.                                                       *)
C11_HashAndSaltTogether ==
    /\ [](/\ \A p \in Procs : BothOrNeither(doc[p])
          /\ \A i \in 1..Len(store) : BothOrNeither(store[i]))
    /\ [][\A p \in Procs :
            SetPasswordStep(p) =>
              IF SetPasswordSucceeds(p)
              THEN /\ doc'[p].salt = args[p].salt
                   /\ doc'[p].salt # Absent
                   /\ doc'[p].hash =
                         EncodeHash(Pbkdf2(args[p].password, doc'[p].salt))
              ELSE /\ doc'[p].hash = doc[p].hash
                   /\ doc'[p].salt = doc[p].salt
                   /\ (args'[p].op = "setPassword" /\ args'[p].password = Absent)
                      => result'[p] = Error("missingPassword")]_vars

\* setPassword failed in the key derivation on a document that had a secret:
\* the document still has the salt register gave it
C11_Witness ==
    \E p \in Procs :
        /\ args[p].op = "setPassword"
        /\ pc[p] = "idle"
        /\ result[p] = Error("cryptoError")
        /\ trace[p] = <<"randomBytes", "pbkdf2">>
        /\ doc[p].salt = "s1"
        /\ doc[p].hash = EncodeHash(Pbkdf2("p", "s1"))

(* C12: the step of an authenticate attempt that ends with                  *)
(* noSaltValueStored leaves the store and the writes in flight as they are, *)
(* with throttling enabled too: the document is as it was read (last and    *)
(* attempts keep their values), no save and no key derivation is called,    *)
(* and the outcome is neither incorrectPassword nor attemptTooSoon.  An     *)
(* attempt that finds a record without a salt and is not throttled ends     *)
(* with that reason.                                                        *)
C12_NoSaltChangesNothing ==
    [][\A p \in Procs :
         (args[p].op = "authenticate"
          /\ pc[p] \in {"auth_findByUsername", "auth_findByEmail"}
          /\ pc'[p] = "idle")
         => /\ result'[p] = Fail("noSaltValueStored") =>
                 /\ store' = store
                 /\ pendingSaves' = pendingSaves
                 /\ loaded'[p].id \in 1..Len(store)
                 /\ doc'[p] = loaded'[p]
                 /\ Stored(doc'[p]) = store'[doc'[p].id]
                 /\ \A k \in 1..Len(trace'[p]) :
                       trace'[p][k] \in {"findByUsername", "findByEmail"}
                 /\ result'[p] # Fail("incorrectPassword")
                 /\ result'[p] # Fail("attemptTooSoon")
            /\ (/\ loaded'[p].id # 0
                /\ loaded'[p].salt = Absent
                /\ ~(limitAttempts /\ now - loaded'[p].last
                                        < SpecDelay(loaded'[p].attempts)))
               => result'[p] = Fail("noSaltValueStored")]_vars

\* with throttling enabled, an attempt on a record without a salt was refused
\* for that reason
C12_Witness ==
    \E p \in Procs :
        /\ AuthReturned(p)
        /\ limitAttempts
        /\ result[p] = Fail("noSaltValueStored")
        /\ store[doc[p].id].salt = Absent
        /\ store[doc[p].id].last < now

\* the stored documents whose secondary identifier is the lower-cased string
\* and whose secret is the given one
SecondaryMatches(name, password) ==
    {i \in 1..Len(store) : /\ store[i].email = ToLowerCase(name)
                           /\ store[i].secret = password}

(* C13 as stated: every stored secondary identifier is in lower case, and   *)
(* a top-level authenticate with a string that is no record's primary       *)
(* identifier and whose lower-cased form is a registered record's secondary *)
(* identifier, with that record's secret, is resolved by the second lookup  *)
(* and returns that record as the principal.                                *)
C13_SecondaryIdentifierLogin ==
    /\ \A i \in 1..Len(store) : store[i].email = ToLowerCase(store[i].email)
    /\ \A p \in Procs :
         (/\ AuthReturned(p)
          /\ result[p].kind # "error"
          /\ PrimaryHolders(args[p].name) = {}
          /\ SecondaryMatches(args[p].name, args[p].password) # {})
         => /\ result[p] = Ok
            /\ doc[p].id \in SecondaryMatches(args[p].name, args[p].password)
            /\ SubSeq(trace[p], 1, 2) = <<"findByUsername", "findByEmail">>

(* C13 amended: the same, for an attempt that is not throttled; a throttled *)
(* attempt is resolved by the second lookup in the same way and ends with   *)
(* attemptTooSoon.                                                          *)
C13_SecondaryIdentifierLoginUnthrottled ==
    /\ \A i \in 1..Len(store) : store[i].email = ToLowerCase(store[i].email)
    /\ \A p \in Procs :
         (/\ AuthReturned(p)
          /\ result[p].kind # "error"
          /\ PrimaryHolders(args[p].name) = {}
          /\ SecondaryMatches(args[p].name, args[p].password) # {})
         => /\ result[p] \in {Ok, Fail("attemptTooSoon")}
            /\ result[p] = Fail("attemptTooSoon") =>
                  /\ limitAttempts
                  /\ loaded[p].last <= now
                  /\ doc[p].last - loaded[p].last < SpecDelay(loaded[p].attempts)
            /\ doc[p].id \in SecondaryMatches(args[p].name, args[p].password)
            /\ SubSeq(trace[p], 1, 2) = <<"findByUsername", "findByEmail">>

\* with throttling enabled, a login by the upper-case form of a secondary
\* identifier returned its record, while another record's primary identifier
\* is the lower-case form
C13_Witness ==
    \E p \in Procs :
        /\ AuthReturned(p)
        /\ limitAttempts
        /\ ~usernameLowerCase
        /\ result[p] = Ok
        /\ args[p].name = "A"
        /\ store[doc[p].id].email = "a"
        /\ store[doc[p].id].username = "b"
        /\ \E j \in 1..Len(store) : store[j].username = "a"

\* the first stored document whose username is the given string, 0 for none
FirstWithUsername(name) ==
    LET hits == {i \in 1..Len(store) : store[i].username = name}
    IN IF hits = {} THEN 0 ELSE CHOOSE i \in hits : \A j \in hits : i <= j

(* C14: with usernameLowerCase every stored primary identifier is in lower  *)
(* case, and for any case variant of a stored name the primary lookup of    *)
(* authenticate finds that record (the attempt goes on to the record's own  *)
(* check) and the uniqueness check of register answers usernameExists.      *)
(* Without usernameLowerCase a register stores the name as given, and the   *)
(* primary lookup of authenticate and the uniqueness check of register find *)
(* a record exactly when its stored name is the given string, case          *)
(* included.  (A lookup that fails in the store finds nothing to match.)    *)
C14_PrimaryIdentifierCase ==
    /\ [](usernameLowerCase =>
            \A i \in 1..Len(store) : store[i].username = ToLowerCase(store[i].username))
    /\ [][\A p \in Procs :
            LET name == IF usernameLowerCase THEN ToLowerCase(args[p].name)
                        ELSE args[p].name
                held == FirstWithUsername(name)
            IN /\ (pc[p] = "auth_findByUsername" /\ pc'[p] # pc[p]
                   /\ result'[p] # Error("storeError"))
                  => IF held # 0
                     THEN /\ loaded'[p].id = held
                          /\ pc'[p] = "auth_pbkdf2"
                     ELSE pc'[p] = "auth_findByEmail"
               /\ (pc[p] = "reg_findByUsername" /\ pc'[p] # pc[p]
                   /\ result'[p] # Error("storeError"))
                  => IF held # 0
                     THEN result'[p] = Error("usernameExists")
                     ELSE pc'[p] = "reg_findByEmail"
               /\ (pc[p] = "reg_save" /\ result'[p] = Ok)
                  => store'[Len(store')].username = name]_vars

\* with usernameLowerCase, a login by the upper-case form reached the record
\* stored under the lower-case form while a register of the upper-case form
\* would be refused
C14_Witness ==
    \E p \in Procs :
        /\ AuthReturned(p)
        /\ usernameLowerCase
        /\ args[p].name = "A"
        /\ result[p] = Ok
        /\ store[doc[p].id].username = "a"
        /\ trace[p] = <<"findByUsername", "pbkdf2">>

(* C15: an authenticate attempt that ends with attemptTooSoon has changed   *)
(* only last, which is the time of the attempt and is persisted once the    *)
(* attempt's write is no longer in flight; attempts, hash and salt are as   *)
(* they were read, and no key derivation was called during the attempt.     *)
C15_ThrottledAttemptWritesOnlyLast ==
    \A p \in Procs :
        (AuthReturned(p) /\ result[p] = Fail("attemptTooSoon"))
        => /\ doc[p] = [loaded[p] EXCEPT !.last = doc[p].last]
           /\ doc[p].last >= loaded[p].last
           /\ doc[p].last <= now
           /\ \A k \in 1..Len(trace[p]) : trace[p][k] # "pbkdf2"
           /\ pendingSaves = {} =>
                 /\ store[doc[p].id].last = doc[p].last
                 /\ store[doc[p].id].hash = loaded[p].hash
                 /\ store[doc[p].id].salt = loaded[p].salt

\* the collaborator calls of one authenticate attempt on a record it found,
\* after the lookups: the throttle check ends the attempt with a save alone,
\* the key derivation comes before the save of its outcome
AttemptCalls(p) ==
    LET k == IF trace[p][2] = "findByEmail" THEN 3 ELSE 2
    IN SubSeq(trace[p], k, Len(trace[p]))

(* C16: within one authenticate attempt the throttle check comes before     *)
(* any key derivation (a throttled attempt calls none) and the save of last *)
(* and attempts comes after the decision; and when the attempt's outcome    *)
(* has been delivered the write is persisted: the stored last and attempts  *)
(* are the ones the attempt set, which is what the next attempt reads.      *)
C16_WriteIsPersistedBeforeTheOutcome ==
    \A p \in Procs :
        (/\ AuthReturned(p)
         /\ limitAttempts
         /\ loaded[p].id # 0
         /\ result[p] \in {Ok, Fail("attemptTooSoon"), Fail("incorrectPassword")})
        => /\ AttemptCalls(p) = IF result[p] = Fail("attemptTooSoon")
                                THEN <<"save">> ELSE <<"pbkdf2", "save">>
           /\ store[doc[p].id].last = doc[p].last
           /\ store[doc[p].id].attempts = doc[p].attempts

(* C17: a failed verification writes the attempts counter it read plus one, *)
(* and the store sets the counter to the value a write carries: the write   *)
(* is no increment of the persisted counter.  So two overlapping attempts   *)
(* with wrong secrets that read the same counter n both write n + 1, and    *)
(* the persisted counter can end at n + 1 after two failed verifications    *)
(* (the state C17_Witness).                                                 *)
C17_CounterIsReadPlusOne ==
    /\ [](\A p \in Procs :
            (AuthReturned(p) /\ result[p] = Fail("incorrectPassword"))
            => doc[p].attempts = loaded[p].attempts + 1)
    /\ [][\A p \in Procs :
            (pc[p] = "auth_pbkdf2" /\ result'[p] = Fail("incorrectPassword"))
            => /\ store' = store
               /\ pendingSaves' = pendingSaves \cup
                     {[id |-> loaded[p].id, last |-> now,
                       attempts |-> loaded[p].attempts + 1]}]_vars
    /\ [][\A w \in pendingSaves :
            (w \notin pendingSaves' /\ w.attempts # Keep)
            => store'[w.id].attempts = w.attempts]_vars

\* two overlapping attempts with wrong secrets have read the same counter,
\* both have run the key derivation and failed, both writes have been
\* applied, and the persisted counter is one higher, not two
C17_Witness ==
    /\ \A p \in Procs :
          /\ AuthReturned(p)
          /\ result[p] = Fail("incorrectPassword")
          /\ trace[p] = <<"findByUsername", "pbkdf2", "save">>
          /\ loaded[p].id = 1
          /\ loaded[p].attempts = 0
    /\ pendingSaves = {}
    /\ store[1].attempts = 1

(* C18: register checks the identifiers in its two lookups and not again    *)
(* when it saves: a register that has passed both lookups and whose save    *)
(* the store does not reject returns success and adds its record, whatever  *)
(* the store holds by then.  So two overlapping registers of one identifier *)
(* can both succeed and leave two records with it (the state C18_Witness).  *)
C18_ChecksAreNotAtomicWithSave ==
    /\ [](\A p \in Procs :
            pc[p] = "reg_save" =>
               trace[p] = <<"findByUsername", "findByEmail", "randomBytes",
                            "pbkdf2", "save">>)
    /\ [][\A p \in Procs :
            (pc[p] = "reg_save" /\ pc'[p] = "idle"
             /\ result'[p] # Error("storeError"))
            => /\ result'[p] = Ok
               /\ Len(store') = Len(store) + 1
               /\ SubSeq(store', 1, Len(store)) = store
               /\ store'[Len(store')].username = UsernameQuery(args[p].name)
               /\ store'[Len(store')].email = EmailQuery(args[p].email)]_vars

\* two registers of the same identifiers have both returned success and the
\* store holds two records with them
C18_Witness ==
    /\ \A p \in Procs : RegReturned(p) /\ result[p] = Ok
    /\ args[1].name = args[2].name
    /\ Len(store) = 2
    /\ store[1].username = store[2].username
    /\ store[1].email = store[2].email
    /\ doc[1].id # doc[2].id

\* the error register reports for its arguments and the store, after the
\* fixed order of its checks; "none" when no check fails
FirstRegisterError(username, email, password) ==
    IF username = Absent THEN "missingUsername"
    ELSE IF email = Absent THEN "missingEmail"
    ELSE IF PrimaryHolders(username) # {} THEN "usernameExists"
    ELSE IF SecondaryHolders(email) # {} THEN "emailExists"
    ELSE IF password = Absent THEN "missingPassword"
    ELSE "none"

\* the collaborator calls register has made when it reports the error
CallsBefore(code) ==
    CASE code \in {"missingUsername", "missingEmail"} -> <<>>
      [] code = "usernameExists" -> <<"findByUsername">>
      [] code \in {"emailExists", "missingPassword"} ->
            <<"findByUsername", "findByEmail">>

(* C19: a register whose arguments fail one or more of its checks (calls do *)
(* not overlap, no collaborator fails) reports the first failure in the     *)
(* order missingUsername, missingEmail, usernameExists, emailExists,        *)
(* missingPassword, having made exactly the calls that come before that     *)
(* check: the second lookup is issued only after the first found nothing,   *)
(* and missingPassword is reported only after both found nothing.           *)
C19_RegisterChecksInOrder ==
    \A p \in Procs :
        LET first == FirstRegisterError(args[p].name, args[p].email,
                                        args[p].password)
        IN /\ (RegReturned(p) /\ result[p].kind = "error"
               /\ result[p].code \notin {"storeError", "cryptoError"})
              => /\ result[p] = Error(first)
                 /\ trace[p] = CallsBefore(first)
           /\ (args[p].op = "register" /\ Len(trace[p]) >= 2)
              => /\ SubSeq(trace[p], 1, 2) = <<"findByUsername", "findByEmail">>
                 /\ (pc[p] # "idle" \/ result[p].kind = "error")
                    => PrimaryHolders(args[p].name) = {}
           /\ (args[p].op = "register" /\ pc[p] \notin {"idle", "reg_findByUsername"})
              => first \in {"none", "emailExists", "missingPassword"}

\* a register that fails three checks at once (both identifiers held, no
\* secret) reported the first of them
C19_Witness ==
    \E p \in Procs :
        /\ RegReturned(p)
        /\ result[p] = Error("usernameExists")
        /\ PrimaryHolders(args[p].name) # {}
        /\ SecondaryHolders(args[p].email) # {}
        /\ args[p].password = Absent
        /\ trace[p] = <<"findByUsername">>

(* C20 as stated: the persisted last of a record never decreases, in any    *)
(* sequence or interleaving of authenticate attempts, the clock never       *)
(* going back.                                                              *)
C20_LastNeverDecreases ==
    [][\A i \in 1..Len(store) : store'[i].last >= store[i].last]_vars

(* C20 amended: every write of last is issued with the clock's value at     *)
(* that moment, which is at least the persisted last and at least the last  *)
(* of every write of the record still in flight; no persisted last is ahead *)
(* of the clock; and the persisted last changes only when a write lands,    *)
(* to the value that write carries.  (The store applies the writes in any   *)
(* order, so the persisted value itself can go back.)                       *)
C20_WritesAreIssuedInClockOrder ==
    /\ [](/\ \A i \in 1..Len(store) : store[i].last <= now
          /\ \A w \in pendingSaves : w.last <= now)
    /\ [][\A w \in pendingSaves' \ pendingSaves :
            /\ w.last = now
            /\ store[w.id].last <= w.last
            /\ \A v \in pendingSaves : v.id = w.id => v.last <= w.last]_vars
    /\ [][\A i \in 1..Len(store) :
            store'[i].last # store[i].last
            => \E w \in pendingSaves \ pendingSaves' :
                  w.id = i /\ store'[i].last = w.last]_vars

\* two attempts on one record have issued their writes at different times
\* and both writes are in flight, the persisted last behind both
C20_Witness ==
    \E v, w \in pendingSaves :
        /\ v.id = w.id
        /\ v.last < w.last
        /\ store[v.id].last <= v.last
        /\ \A p \in Procs : AuthReturned(p) /\ doc[p].id = v.id

\* ------------------------------------------------------------------
\* C21: the throttle delay never exceeds maxInterval, whatever the failure
\* count, so no record is locked out for good: an attempt that reads a
\* record whose last attempt is at least maxInterval old is not refused as
\* too soon and its secret is verified, and when the secret is the right
\* one the attempt returns the principal with its failure count set to 0
\* and issues the write of that 0.
C21_DelayIsCapped ==
    \A n \in 0..(MaxAttempts + 1) : CalculatedInterval(n) <= maxInterval

C21_OpenAfterMaxInterval ==
    \A p \in Procs :
        LET found == FindByUsername(args[p].name) IN
        (/\ pc[p] = "auth_findByUsername"
         /\ found # 0
         /\ now - store[found].last >= maxInterval
         /\ pc'[p] # pc[p]
         /\ result'[p] # Error("storeError"))
        => /\ pc'[p] = "auth_pbkdf2"
           /\ result'[p] = NoResult
           /\ pendingSaves' = pendingSaves

C21_RightSecretResets ==
    \A p \in Procs :
        (/\ pc[p] = "auth_pbkdf2"
         /\ args[p].password = doc[p].secret
         /\ pc'[p] # pc[p]
         /\ result'[p] # Error("cryptoError"))
        => /\ result'[p] = Ok
           /\ doc'[p].attempts = 0
           /\ pendingSaves' =
                pendingSaves \cup {[id |-> doc[p].id, last |-> now,
                                    attempts |-> 0]}

C22_ErrorStepChangesNothing ==
    \A p \in Procs :
        (/\ pc[p] = "auth_pbkdf2"
         /\ result'[p] = Error("cryptoError"))
        => /\ pc'[p] = "idle"
           /\ doc'[p] = doc[p]
           /\ store' = store
           /\ pendingSaves' = pendingSaves
           /\ trace'[p] = trace[p]

C22_ErrorLeavesRecordAsRead ==
    \A p \in Procs :
        (AuthReturned(p) /\ result[p] = Error("cryptoError"))
        => /\ doc[p] = loaded[p]
           /\ \A i \in 1..Len(trace[p]) : trace[p][i] # "save"

C22_KeyDerivationError ==
    /\ [][C22_ErrorStepChangesNothing]_vars
    /\ []C22_ErrorLeavesRecordAsRead

\* a failed key derivation on a stored record, throttling enabled, while
\* nothing is in flight for the record
C22_Witness ==
    /\ limitAttempts
    /\ AuthReturned(1)
    /\ result[1] = Error("cryptoError")
    /\ doc[1].id # 0
    /\ store[doc[1].id].attempts = doc[1].attempts
    /\ store[doc[1].id].last = doc[1].last
    /\ pendingSaves = {}

\* ------------------------------------------------------------------
\* C23: every failure of authenticate is delivered as the value false with
\* an info object and never as an error, and the info object carries a
\* reason code that tells which of the four failures occurred: the codes of
\* TooSoon, NoCredentialConfigured, IncorrectSecret and UnknownIdentifier are
\* present and pairwise different, whatever message texts are configured.
C23_ReasonCodeIdentifiesFailure ==
    \A p \in Procs :
        (AuthReturned(p) /\ result[p].kind = "fail")
        => /\ result[p].code \in FailureCodes
           /\ Info(result[p].code).result # Absent
           /\ \A c \in FailureCodes \ {result[p].code} :
                 Info(c).result # Info(result[p].code).result

\* ------------------------------------------------------------------
\* a step of caller p inside register or setPassword, the calls included,
\* or the save by which p stores what setPassword set
SecretStep(p) ==
    \/ pc[p] \in {"set_randomBytes", "set_pbkdf2", "reg_findByUsername",
                  "reg_findByEmail", "reg_randomBytes", "reg_pbkdf2", "reg_save"}
         /\ pc'[p] # pc[p]
    \/ pc[p] = "idle" /\ pc'[p] \in {"set_randomBytes", "reg_findByUsername"}
    \/ pc[p] = "idle" /\ pc'[p] = "idle"
         /\ args'[p].op \in {"setPassword", "register"}
         /\ <<args'[p], result'[p], cbCount'[p]>> # <<args[p], result[p], cbCount[p]>>
    \/ args[p].op = "setPassword" /\ args'[p].op = "saved"

\* a step of caller p inside authenticate, the call included
AuthStep(p) ==
    \/ pc[p] \in {"auth_findByUsername", "auth_findByEmail", "auth_pbkdf2"}
         /\ pc'[p] # pc[p]
    \/ pc[p] = "idle" /\ pc'[p] = "auth_findByUsername"

\* every record the store holds keeps its failure count and its last attempt
ThrottleFieldsKept ==
    /\ Len(store') >= Len(store)
    /\ \A i \in 1..Len(store) :
          /\ store'[i].attempts = store[i].attempts
          /\ store'[i].last = store[i].last

\* every record the store holds keeps its hash and its salt
SecretFieldsKept ==
    /\ Len(store') = Len(store)
    /\ \A i \in 1..Len(store) :
          /\ store'[i].hash = store[i].hash
          /\ store'[i].salt = store[i].salt

\* C24: setPassword and register never change the failure count or the time
\* of the last attempt of an existing record, in the store or on the copy the
\* caller holds, and neither does the save that stores the new secret; and
\* authenticate never changes the hash or the salt: not on the record it
\* holds, not in the store, and not through the writes it issues, which
\* carry nothing but the time of the last attempt and the failure count.
C24_SecretStepsKeepThrottleFields ==
    \A p \in Procs :
        SecretStep(p)
        => /\ ThrottleFieldsKept
           /\ pendingSaves' = pendingSaves
           /\ (doc[p].id # 0 /\ doc'[p].id = doc[p].id)
              => /\ doc'[p].attempts = doc[p].attempts
                 /\ doc'[p].last = doc[p].last

C24_AuthStepsKeepSecretFields ==
    \A p \in Procs :
        AuthStep(p)
        => /\ SecretFieldsKept
           /\ (doc'[p].id # 0)
              => /\ doc'[p].hash = store[doc'[p].id].hash
                 /\ doc'[p].salt = store[doc'[p].id].salt

C24_WritesKeepSecretFields ==
    /\ \A w \in pendingSaves' : DOMAIN w = {"id", "last", "attempts"}
    /\ (pendingSaves' # pendingSaves) => SecretFieldsKept

KnownAttemptTimes(i) ==
    {store[i].last} \cup
    {w.last : w \in {v \in pendingSaves : v.id = i /\ v.attempts = Keep}}

\* C25: the throttle window slides.  On a record with a failure count of at
\* least 1, an attempt that arrives less than the delay after an earlier
\* attempt is refused as too soon and leaves the failure count as it is, so
\* that the record is open again only after a gap of at least the delay
\* without any attempt, and the right secret does not log in before that.
C25_WindowSlides ==
    [][\A p \in Procs :
        LET i == FindByUsername(args[p].name) IN
        (/\ limitAttempts
         /\ pc[p] = "auth_findByUsername"
         /\ pc'[p] # pc[p]
         /\ result'[p] # Error("storeError")
         /\ i # 0
         /\ store[i].attempts >= 1
         /\ \E t \in KnownAttemptTimes(i) :
               now - t < SpecDelay(store[i].attempts))
        => /\ result'[p] = Fail("attemptTooSoon")
           /\ doc'[p].attempts = store[i].attempts]_vars

\* ------------------------------------------------------------------
\* caller p's current call has asked the store for a record by its
\* secondary identifier
AskedByEmail(p) == \E k \in 1..Len(trace[p]) : trace[p][k] = "findByEmail"

\* C26: the primary identifier has precedence.  When the string supplied to
\* authenticate is the primary identifier of a stored record A, the attempt
\* is decided against A, the lookup by the secondary identifier is never
\* issued, and every write of the attempt is a write to A, also when another
\* record B has that string as its secondary identifier.  register compares
\* the new primary identifier with the stored primary identifiers only and
\* the new secondary identifier with the stored secondary identifiers only,
\* so such a pair A, B comes to be stored; an attempt with B's secondary
\* identifier and B's secret is then counted as a failure of A.
C26_LookupPrefersPrimary ==
    \A p \in Procs :
        (/\ pc[p] = "auth_findByUsername"
         /\ pc'[p] # pc[p]
         /\ result'[p] # Error("storeError")
         /\ PrimaryHolders(args[p].name) # {})
        => /\ loaded'[p].id \in PrimaryHolders(args[p].name)
           /\ doc'[p].id = loaded'[p].id
           /\ pc'[p] # "auth_findByEmail"
           /\ \A w \in pendingSaves' \ pendingSaves : w.id = loaded'[p].id

C26_AttemptStaysWithPrimary ==
    \A p \in Procs :
        (args[p].op = "authenticate" /\ PrimaryHolders(args[p].name) # {})
        => /\ ~AskedByEmail(p)
           /\ loaded[p].id # 0 =>
                /\ loaded[p].id \in PrimaryHolders(args[p].name)
                /\ doc[p].id = loaded[p].id

C26_VerificationWritesItsRecord ==
    \A p \in Procs :
        (pc[p] = "auth_pbkdf2" /\ pc'[p] # pc[p])
        => \A w \in pendingSaves' \ pendingSaves : w.id = loaded[p].id

C26_RegisterComparesLikeWithLike ==
    \A p \in Procs :
        /\ (/\ pc[p] = "reg_findByUsername"
            /\ pc'[p] # pc[p]
            /\ result'[p] # Error("storeError")
            /\ PrimaryHolders(doc[p].username) = {})
           => pc'[p] = "reg_findByEmail"
        /\ (/\ pc[p] = "reg_findByEmail"
            /\ pc'[p] # pc[p]
            /\ result'[p] # Error("storeError")
            /\ SecondaryHolders(doc[p].email) = {})
           => result'[p] # Error("emailExists")

C26_PrimaryIdentifierPrecedence ==
    /\ [][/\ C26_LookupPrefersPrimary
          /\ C26_VerificationWritesItsRecord
          /\ C26_RegisterComparesLikeWithLike]_vars
    /\ []C26_AttemptStaysWithPrimary

\* records A and B are stored, B's secondary identifier being A's primary
\* identifier; an attempt with that string and B's secret has been decided
\* against A as an incorrect secret, and A's failure count has gone up
C26_Witness ==
    \E a, b \in 1..Len(store) :
        /\ a # b
        /\ store[b].email = store[a].username
        /\ store[b].username # store[a].username
        /\ store[b].secret # store[a].secret
        /\ AuthReturned(1)
        /\ args[1].name = store[a].username
        /\ args[1].password = store[b].secret
        /\ result[1] = Fail("incorrectPassword")
        /\ doc[1].id = a
        /\ ~AskedByEmail(1)
        /\ store[a].attempts = 1
        /\ store[b].attempts = 0

\* ------------------------------------------------------------------
\* caller p's current call has asked the store to save a record
AskedToSave(p) == \E k \in 1..Len(trace[p]) : trace[p][k] = "save"

\* C27: with throttling disabled authenticate is read-only.  None of its
\* steps changes the store or issues a write, the record it holds stays
\* equal to the stored one, no save is among its calls, and it never ends as
\* TooSoon: on success, on an incorrect secret, on a record without salt and
\* on an unknown identifier alike.
C27_AuthStepsReadOnly ==
    \A p \in Procs :
        (~limitAttempts /\ AuthStep(p))
        => /\ store' = store
           /\ pendingSaves' = pendingSaves
           /\ doc'[p].id # 0 => doc'[p] = Load(doc'[p].id)
           /\ result'[p] # Fail("attemptTooSoon")

C27_NothingToSave ==
    ~limitAttempts
    => /\ pendingSaves = {}
       /\ \A p \in Procs : args[p].op = "authenticate" => ~AskedToSave(p)

C27_ReadOnlyWithoutThrottling ==
    /\ [][C27_AuthStepsReadOnly]_vars
    /\ []C27_NothingToSave

\* throttling disabled: an attempt with the wrong secret has ended as an
\* incorrect secret and the record is as it was
C27_Witness ==
    /\ ~limitAttempts
    /\ AuthReturned(1)
    /\ result[1] = Fail("incorrectPassword")
    /\ doc[1] = Load(doc[1].id)
    /\ doc[1].attempts = 0
    /\ ~AskedToSave(1)

\* ------------------------------------------------------------------
\* the operations that take the caller's callback
CallbackOps == {"setPassword", "authenticate", "register"}

\* C28: every call of setPassword, authenticate and register runs the
\* caller's callback exactly once on every path, given that each store and
\* crypto collaborator calls back: while a call waits the callback has not
\* run, the step that ends a call runs it once and hands it a result, a call
\* that is over has run it exactly once, and every call that waits is over
\* in the end.
C28_NotBeforeTheEnd ==
    \A p \in Procs :
        pc[p] # "idle" => /\ args[p].op \in CallbackOps
                          /\ cbCount[p] = 0
                          /\ result[p] = NoResult

C28_OnceAtTheEnd ==
    \A p \in Procs :
        (pc[p] = "idle" /\ args[p].op \in CallbackOps)
        => /\ cbCount[p] = 1
           /\ result[p] # NoResult

C28_CallbackExactlyOnce ==
    /\ [](C28_NotBeforeTheEnd /\ C28_OnceAtTheEnd)
    /\ \A p \in Procs : (pc[p] # "idle") ~> (pc[p] = "idle")

\* a register call that went through all five collaborator calls is over
\* and has run the callback once
C28_Witness ==
    /\ RegReturned(1)
    /\ result[1] = Ok
    /\ Len(trace[1]) = 5
    /\ cbCount[1] = 1
====
